---- MODULE Spec2Model ----
(***************************************************************************)
(* Model of MaiBot's expression selector                                   *)
(* (src/chat/express/expression_selector.py) and PFC reply generator       *)
(* (src/plugins/PFC/reply_generator.py).                                   *)
(*                                                                         *)
(* Counts are fixed-point decimals in units of 0.001: 5.0 is 5000, the     *)
(* default increment 0.1 is 100, the LLM-selection increment 0.006 is 6.   *)
(* Python's None is the string "None"; a dict is a function whose DOMAIN   *)
(* is the set of keys it carries.                                          *)
(***************************************************************************)
EXTENDS Integers, Sequences, FiniteSets, TLC

VARIABLES
    store,        \* Expression table: id -> row
    store0,       \* the table as it was at start (never changes)
    now,          \* what time.time() returns
    ops,          \* update_expressions_count_batch calls made so far
    batch,        \* argument of the last update_expressions_count_batch call
    increment,    \* increment of the last call
    prev,         \* the table before the last call
    out,          \* outcome of the last call: rows saved, raised or not
    hist,         \* per row: <<saves with increment 0.1, saves with 0.006>>
    max_num,      \* select calls: the max_num the caller passes
    perm,         \* per select call: outcome of the permission lookup
    pc,           \* per select call: where the coroutine is
    style_exprs,  \* per select call: the candidates retrieved
    response,     \* per select call: <<what the LLM call did>>, when kept
    result,       \* per select call: <<the returned pair>>, <<>> before the return
    llm_calls,    \* per select call: generate_response_async invocations
    saved,        \* per select call: rows its reinforcement saved, and whether a save raised
    population, weights, k, sampled,   \* weighted_sample: arguments, outcome
    gpc,          \* generate: where the coroutine is
    log,          \* generate: steps taken by the current call
    observed,     \* chat observer: number of messages it holds
    messages,     \* generate: number of messages read from the observer
    llm_out,      \* generate: what the LLM call of the current call did
    reply,        \* generate: <<the returned value>>, <<>> before the return
    gcalls        \* generate calls made so far

batchVars  == <<ops, batch, increment, prev, out, hist>>
selectVars == <<max_num, perm, pc, style_exprs, response, result, llm_calls, saved>>
sampleVars == <<population, weights, k, sampled>>
replyVars  == <<gpc, log, observed, messages, llm_out, reply, gcalls>>
vars == <<store, store0, now, batchVars, selectVars, sampleVars, replyVars>>

(***************************************************************************)
(* Constants of the program                                                *)
(***************************************************************************)
MaxCount         == 5000    \* min(current_count + increment, 5.0)
DefaultIncrement == 100     \* increment: float = 0.1
LLMIncrement     == 6       \* update_expressions_count_batch(valid_expressions, 0.006)
CandidateCount   == 10      \* get_random_expressions(chat_id, 10); len(style_exprs) < 10
HistoryLimit     == 20      \* get_message_history(limit=20)

None == "None"

(***************************************************************************)
(* Bounds of the model                                                     *)
(***************************************************************************)
MaxOps   == 3    \* SpecClamp: update_expressions_count_batch calls in a row
MaxBatch == 2    \* entries in one batch
MaxPop    == 3   \* SpecSample: size of the population
MaxWeight == 2   \* SpecSample: largest weight
MaxK      == 2   \* SpecSample: largest k
MaxSel   == 2    \* entries of selected_situations in an LLM answer
NCalls   == 2    \* SpecConc: select_suitable_expressions_llm calls in flight
MaxObserved == 21  \* SpecReply: messages the chat observer may hold
MaxGenerate == 2   \* SpecReply: generate calls in a row

Min(a, b) == IF a <= b THEN a ELSE b

\* dict.get(key, default)
Get(d, key, default) == IF key \in DOMAIN d THEN d[key] ELSE default

\* Python truthiness of an Optional[str]
Falsy(x) == x = None \/ x = ""

Row(id, chat, type, situation, style, count) ==
    [id |-> id, chat_id |-> chat, type |-> type, situation |-> situation,
     style |-> style, count |-> count, last_active_time |-> 0,
     create_date |-> <<>>]    \* <<>> is a NULL create_date

(***************************************************************************)
(* weighted_sample                                                         *)
(***************************************************************************)
RECURSIVE Sum(_)
Sum(w) == IF w = <<>> THEN 0 ELSE Head(w) + Sum(Tail(w))

\* list.pop(i)
Pop(s, i) == SubSeq(s, 1, i - 1) \o SubSeq(s, i + 1, Len(s))

\* random.choices(range(n), weights=w)[0]: the indexes it may return, 1-based.
\* It raises ValueError (the empty set here) when the weights do not match the
\* population or their total is not above zero; an index of weight zero is
\* never returned.
Choices(n, w) ==
    IF Len(w) # n \/ Sum(w) <= 0 THEN {}
    ELSE {i \in 1..n : w[i] > 0}

\* for _ in range(k): ... selected.append(population_copy.pop(chosen_idx))
RECURSIVE Draws(_, _, _, _)
Draws(population_copy, weights_copy, n, selected) ==
    IF n = 0 \/ population_copy = <<>>
    THEN {[raised |-> FALSE, selected |-> selected]}
    ELSE IF Choices(Len(population_copy), weights_copy) = {}
         THEN {[raised |-> TRUE, selected |-> <<>>]}
         ELSE UNION { Draws(Pop(population_copy, i), Pop(weights_copy, i), n - 1,
                            Append(selected, population_copy[i])) :
                      i \in Choices(Len(population_copy), weights_copy) }

\* The outcomes of weighted_sample(pop, w, n): a returned list, or an
\* exception leaving random.choices.
weighted_sample(pop, w, n) ==
    IF pop = <<>> \/ w = <<>> \/ n <= 0
    THEN {[raised |-> FALSE, selected |-> <<>>]}
    ELSE IF Len(pop) <= n
         THEN {[raised |-> FALSE, selected |-> pop]}
         ELSE Draws(pop, w, n, <<>>)

(***************************************************************************)
(* update_expressions_count_batch                                          *)
(***************************************************************************)
ExprKey(expr) ==
    <<Get(expr, "source_id", None), Get(expr, "type", "style"),
      Get(expr, "situation", None), Get(expr, "style", None)>>

\* if not source_id or not situation or not style: continue
MissingField(expr) ==
    \/ Falsy(Get(expr, "source_id", None))
    \/ Falsy(Get(expr, "situation", None))
    \/ Falsy(Get(expr, "style", None))

InSeq(x, s) == \E i \in 1..Len(s) : s[i] = x

\* A plausible slip: the later duplicate is kept as another update.
KeepKeyNoDedup(key, updates) == TRUE

\* if key not in updates_by_key
KeepKey(key, updates) == \A i \in 1..Len(updates) : updates[i].key # key

\* The first loop: updates_by_key, a dict, which keeps insertion order.
RECURSIVE UpdatesByKey(_, _)
UpdatesByKey(exprs, updates) ==
    IF exprs = <<>> THEN updates
    ELSE LET expr == Head(exprs) IN
         IF MissingField(expr) THEN UpdatesByKey(Tail(exprs), updates)
         ELSE IF KeepKey(ExprKey(expr), updates)
              THEN UpdatesByKey(Tail(exprs),
                                Append(updates, [key |-> ExprKey(expr), expr |-> expr]))
              ELSE UpdatesByKey(Tail(exprs), updates)

\* Expression.select().where(chat_id == .. & type == .. & situation == .. & style == ..)
Matching(st, key) ==
    {id \in DOMAIN st : /\ st[id].chat_id = key[1]
                        /\ st[id].type = key[2]
                        /\ st[id].situation = key[3]
                        /\ st[id].style = key[4]}

\* query.get(): the first matching row
FirstOf(ids) == CHOOSE id \in ids : \A other \in ids : id <= other

\* A plausible slip: the clamp is left out.
NewCountUnclamped(current_count, inc) == current_count + inc

\* new_count = min(current_count + increment, 5.0)
NewCount(current_count, inc) == Min(current_count + inc, MaxCount)

\* A plausible slip: the count the caller's dict carries, read when the
\* candidates were retrieved, is used in place of the row's.
SaveRowFromDict(st, id, expr, inc, t) ==
    [st EXCEPT ![id].count = NewCount(Get(expr, "count", st[id].count), inc),
               ![id].last_active_time = t]

\* current_count = expr_obj.count (the row just queried); expr_obj.count = new_count;
\* expr_obj.last_active_time = time.time(); expr_obj.save(). The caller's dict
\* expr is not read.
SaveRow(st, id, expr, inc, t) ==
    [st EXCEPT ![id].count = NewCount(st[id].count, inc),
               ![id].last_active_time = t]

\* A plausible slip: the loop runs in one transaction, rolled back on failure.
OnSaveFailureRollback(st0, st, done) ==
    [store |-> st0, saved |-> <<>>, raised |-> TRUE]

\* expr_obj.save() raised: nothing catches it inside the loop, the rows saved
\* so far stay saved and the call ends.
OnSaveFailure(st0, st, done) ==
    [store |-> st, saved |-> done, raised |-> TRUE]

\* The second loop. failAt = n > 0 makes the n-th save() raise.
RECURSIVE WriteKeys(_, _, _, _, _, _, _)
WriteKeys(updates, st0, st, inc, t, failAt, done) ==
    IF updates = <<>> THEN [store |-> st, saved |-> done, raised |-> FALSE]
    ELSE LET found == Matching(st, Head(updates).key) IN
         IF found = {}
         THEN WriteKeys(Tail(updates), st0, st, inc, t, failAt, done)
         ELSE IF Len(done) + 1 = failAt
              THEN OnSaveFailure(st0, st, done)
              ELSE WriteKeys(Tail(updates), st0,
                             SaveRow(st, FirstOf(found), Head(updates).expr, inc, t),
                             inc, t, failAt, Append(done, FirstOf(found)))

update_expressions_count_batch(st, exprs, inc, t, failAt) ==
    IF exprs = <<>> THEN [store |-> st, saved |-> <<>>, raised |-> FALSE]
    ELSE WriteKeys(UpdatesByKey(exprs, <<>>), st, st, inc, t, failAt, <<>>)

(***************************************************************************)
(* Chat ids and expression groups                                          *)
(***************************************************************************)
\* hashlib.md5("_".join(components).encode()).hexdigest(): one digest per key
Md5(components) ==
    CASE components = <<"qq", "1">> -> "md5(qq_1)"
      [] components = <<"qq", "2">> -> "md5(qq_2)"
      [] components = <<"qq", "3">> -> "md5(qq_3)"
      [] OTHER -> "md5(other)"

\* parts is stream_config_str.split(":")
parse_stream_config_to_chat_id(parts) ==
    IF Len(parts) # 3 THEN None
    ELSE IF parts[3] = "group" THEN Md5(<<parts[1], parts[2]>>)
         ELSE Md5(<<parts[1], parts[2], "private">>)

\* global_config.expression.expression_groups
ExpressionGroups ==
    << << <<"qq", "7", "group">> >>,
       << <<"qq", "1", "group">>, <<"qq", "2", "group">>, <<"qq", "9">> >> >>

RECURSIVE GroupChatIds(_)
GroupChatIds(group) ==
    IF group = <<>> THEN <<>>
    ELSE IF parse_stream_config_to_chat_id(Head(group)) \notin {None, ""}
         THEN <<parse_stream_config_to_chat_id(Head(group))>> \o GroupChatIds(Tail(group))
         ELSE GroupChatIds(Tail(group))

RECURSIVE RelatedIn(_, _)
RelatedIn(groups, chat_id) ==
    IF groups = <<>> THEN <<chat_id>>
    ELSE IF InSeq(chat_id, GroupChatIds(Head(groups))) THEN GroupChatIds(Head(groups))
         ELSE RelatedIn(Tail(groups), chat_id)

get_related_chat_ids(chat_id) == RelatedIn(ExpressionGroups, chat_id)

(***************************************************************************)
(* get_random_expressions                                                  *)
(***************************************************************************)
ExprDict(row) ==
    [id |-> row.id, situation |-> row.situation, style |-> row.style,
     count |-> row.count, last_active_time |-> row.last_active_time,
     source_id |-> row.chat_id, type |-> "style",
     create_date |-> IF row.create_date # <<>> THEN row.create_date[1]
                     ELSE row.last_active_time]

\* Expression.select().where(chat_id.in_(related) & type == "style"), in id order
StyleQuery(st, related) ==
    SelectSeq([i \in 1..Cardinality(DOMAIN st) |-> i],
              LAMBDA id : InSeq(st[id].chat_id, related) /\ st[id].type = "style")

\* The outcomes of get_random_expressions(chat_id, total_num); readFails makes
\* the query raise.
get_random_expressions(st, chat_id, total_num, readFails) ==
    IF readFails THEN {[raised |-> TRUE, selected |-> <<>>]}
    ELSE LET ids == StyleQuery(st, get_related_chat_ids(chat_id))
             exprs == [i \in 1..Len(ids) |-> ExprDict(st[ids[i]])]
         IN IF exprs # <<>>
            THEN weighted_sample(exprs, [i \in 1..Len(exprs) |-> Get(exprs[i], "count", 1)],
                                 total_num)
            ELSE {[raised |-> FALSE, selected |-> <<>>]}

(***************************************************************************)
(* select_suitable_expressions_llm                                         *)
(***************************************************************************)
Nothing == << <<>>, <<>> >>     \* return [], []

\* lookup is what get_expression_config_for_chat did: "true", "false", "raise"
can_use_expression_for_chat(lookup) ==
    IF lookup = "raise" THEN FALSE ELSE lookup = "true"

\* A plausible slip: an off-by-one threshold.
AccumulatingOffByOne(exprs) == Len(exprs) < CandidateCount - 1

\* if len(style_exprs) < 10
Accumulating(exprs) == Len(exprs) < CandidateCount

\* The call up to its first await: the permission check, the retrieval (o is
\* its outcome), the gate. Nothing catches what the retrieval raises.
Begin(lookup, o) ==
    IF ~can_use_expression_for_chat(lookup) THEN [pc |-> "done", exprs |-> <<>>]
    ELSE IF o.raised THEN [pc |-> "raised", exprs |-> <<>>]
    ELSE IF Accumulating(o.selected) THEN [pc |-> "done", exprs |-> <<>>]
    ELSE IF o.selected = <<>> THEN [pc |-> "done", exprs |-> <<>>]
    ELSE [pc |-> "prompt", exprs |-> o.selected]

\* A JSON value as json.loads builds it: t is its Python type.
J(t, v) == [t |-> t, v |-> v]

\* isinstance(idx, int): bool is a subclass of int
IsInstanceInt(idx) == idx.t \in {"int", "bool"}

\* the value idx compares and indexes as: True is 1, False is 0
AsInt(idx) == IF idx.t = "bool" THEN (IF idx.v THEN 1 ELSE 0) ELSE idx.v

\* if isinstance(idx, int) and 1 <= idx <= len(all_expressions)
ValidIndex(idx, n) == IsInstanceInt(idx) /\ 1 <= AsInt(idx) /\ AsInt(idx) <= n

\* for idx in selected_indices: a list gives its entries, a one-character
\* string gives itself, anything else here is not iterable (TypeError)
Iterable(x) == x.t \in {"list", "str"}
Items(x) == IF x.t = "list" THEN x.v ELSE <<x>>

RECURSIVE ValidExpressions(_, _)
ValidExpressions(items, all_expressions) ==
    IF items = <<>> THEN <<>>
    ELSE IF ValidIndex(Head(items), Len(all_expressions))
         THEN <<all_expressions[AsInt(Head(items))]>>
                  \o ValidExpressions(Tail(items), all_expressions)
         ELSE ValidExpressions(Tail(items), all_expressions)

Quiet(st) == [result |-> Nothing, store |-> st, saved |-> <<>>, raised |-> FALSE]

\* From the LLM's answer to the return, inside the try: any exception ends in
\* return [], [].
AfterAnswer(st, all_expressions, resp, t, failAt) ==
    IF resp.kind \in {"raise", "empty", "unparsable"} THEN Quiet(st)
    ELSE IF resp.value.t # "dict" \/ "selected_situations" \notin DOMAIN resp.value.v
    THEN Quiet(st)
    ELSE IF ~Iterable(resp.value.v["selected_situations"]) THEN Quiet(st)
    ELSE LET valid == ValidExpressions(Items(resp.value.v["selected_situations"]),
                                       all_expressions)
             u == update_expressions_count_batch(st, valid, LLMIncrement, t, failAt)
         IN IF valid = <<>> THEN Quiet(st)
            ELSE IF u.raised
                 THEN [result |-> Nothing, store |-> u.store, saved |-> u.saved,
                       raised |-> TRUE]
                 ELSE [result |-> <<valid, [i \in 1..Len(valid) |-> valid[i]["id"]]>>,
                       store |-> u.store, saved |-> u.saved, raised |-> FALSE]

(***************************************************************************)
(* Inputs that are not owned by the two components                         *)
(***************************************************************************)
NoSelect ==
    /\ max_num = 0 /\ perm = <<>> /\ pc = <<>> /\ style_exprs = <<>>
    /\ response = <<>> /\ result = <<>> /\ llm_calls = <<>> /\ saved = <<>>
NoSample == population = <<>> /\ weights = <<>> /\ k = 0 /\ sampled = <<>>
NoReply  ==
    /\ gpc = "idle" /\ log = <<>> /\ observed = 0 /\ messages = 0
    /\ llm_out = <<>> /\ reply = <<>> /\ gcalls = 0
NoBatch  ==
    /\ ops = 0 /\ batch = <<>> /\ increment = 0 /\ prev = store
    /\ out = [saved |-> <<>>, raised |-> FALSE, failAt |-> 0]
    /\ hist = [id \in DOMAIN store |-> <<0, 0>>]

(***************************************************************************)
(* update_expressions_count_batch called by any caller, any number of      *)
(* times, on a small table                                                 *)
(***************************************************************************)
\* Three rows; rows 1 and 3 differ in type only.
BatchTable(c1, c2) ==
    [id \in 1..3 |->
        IF id = 1 THEN Row(1, "A", "style", "s1", "t1", c1)
        ELSE IF id = 2 THEN Row(2, "A", "style", "s2", "t2", c2)
        ELSE Row(3, "A", "grammar", "s1", "t1", MaxCount)]

\* What a caller may pass: dicts as get_random_expressions builds them
\* (id, count ride along and are ignored) and dicts with fields missing.
BatchEntries ==
    { [source_id |-> "A", type |-> "style", situation |-> "s1", style |-> "t1", id |-> 1],
      [source_id |-> "A", type |-> "style", situation |-> "s1", style |-> "t1", id |-> 7],
      [source_id |-> "A", situation |-> "s2", style |-> "t2"],
      [source_id |-> "A", type |-> "grammar", situation |-> "s1", style |-> "t1"],
      [source_id |-> "B", type |-> "style", situation |-> "s1", style |-> "t1"],
      [source_id |-> "A", type |-> "style", situation |-> "s1"],
      [source_id |-> "", type |-> "style", situation |-> "s2", style |-> "t2"] }

RECURSIVE SeqsUpTo(_, _)
SeqsUpTo(S, n) ==
    IF n = 0 THEN {<<>>}
    ELSE LET shorter == SeqsUpTo(S, n - 1) IN
         shorter \cup {Append(s, x) : s \in {t \in shorter : Len(t) = n - 1}, x \in S}

Occurrences(x, s) == Cardinality({i \in 1..Len(s) : s[i] = x})

\* The entries a caller passes when it reinforces rows 1 and 2 only.
ClampEntries ==
    { [source_id |-> "A", type |-> "style", situation |-> "s1", style |-> "t1", id |-> 1],
      [source_id |-> "A", situation |-> "s2", style |-> "t2"] }

InitTable(counts1, counts2) ==
    /\ \E c1 \in counts1, c2 \in counts2 : store = BatchTable(c1, c2)
    /\ store0 = store
    /\ now = 1
    /\ NoBatch /\ NoSelect /\ NoSample /\ NoReply

\* One call of update_expressions_count_batch(exprs, inc), the whole of it;
\* the clock moves on afterwards.
Call(batches, limit) ==
    /\ ops < limit
    /\ \E exprs \in batches,
          inc \in {DefaultIncrement, LLMIncrement},
          failAt \in 0..MaxBatch :
          \E r \in {update_expressions_count_batch(store, exprs, inc, now, failAt)} :
          /\ failAt > 0 => r.raised
          /\ store' = r.store
          /\ prev' = store
          /\ batch' = exprs
          /\ increment' = inc
          /\ out' = [saved |-> r.saved, raised |-> r.raised, failAt |-> failAt]
          /\ hist' = [id \in DOMAIN store |->
                        IF inc = DefaultIncrement
                        THEN <<hist[id][1] + Occurrences(id, r.saved), hist[id][2]>>
                        ELSE <<hist[id][1], hist[id][2] + Occurrences(id, r.saved)>>]
    /\ ops' = ops + 1
    /\ now' = now + 1
    /\ UNCHANGED <<store0, selectVars, sampleVars, replyVars>>

\* One call with any batch on any of these tables.
AnyBatch == SeqsUpTo(BatchEntries, MaxBatch)
InitBatch == InitTable({4950, 4990, 5000}, {1000, 4994, 4900})
Reinforce == Call(AnyBatch, 1)
NextBatch == Reinforce
SpecBatch == InitBatch /\ [][NextBatch]_vars

\* Rows 1 and 2 reinforced again and again.
InitClamp == InitTable({4950}, {1000, 4994})
ClampBatches == SeqsUpTo(ClampEntries, MaxBatch)
ReinforceAgain == Call(ClampBatches, MaxOps)
NextClamp == ReinforceAgain
SpecClamp == InitClamp /\ [][NextClamp]_vars

(***************************************************************************)
(* Claims about update_expressions_count_batch                             *)
(***************************************************************************)
\* C1: a row whose count starts at or below 5.0 never has a count above 5.0,
\* whatever calls with increment 0.1 or 0.006 are made; a row that starts at
\* 4.95 and is reinforced three times with 0.1 (and not otherwise) is at
\* exactly 5.0.
C1_CountNeverAboveMax ==
    \A id \in DOMAIN store :
        store0[id].count <= MaxCount =>
            /\ store[id].count <= MaxCount
            /\ (store0[id].count = 4950 /\ hist[id] = <<3, 0>>)
                    => store[id].count = MaxCount

C1_Witness ==
    \E id \in DOMAIN store : store0[id].count = 4950 /\ hist[id] = <<3, 0>>

\* The keys of the entries of the last batch that carry source_id, situation
\* and style and that match a row of the table as it was before the call.
WritableKeys ==
    { <<e.source_id, IF "type" \in DOMAIN e THEN e.type ELSE "style",
        e.situation, e.style>> :
      e \in { batch[i] : i \in { j \in 1..Len(batch) :
                /\ {"source_id", "situation", "style"} \subseteq DOMAIN batch[j]
                /\ batch[j].source_id \notin {"", None}
                /\ batch[j].situation \notin {"", None}
                /\ batch[j].style \notin {"", None}
                /\ \E id \in DOMAIN prev :
                      /\ prev[id].chat_id = batch[j].source_id
                      /\ prev[id].type = (IF "type" \in DOMAIN batch[j]
                                          THEN batch[j].type ELSE "style")
                      /\ prev[id].situation = batch[j].situation
                      /\ prev[id].style = batch[j].style } } }

RowOfKey(key) ==
    CHOOSE id \in DOMAIN prev :
        <<prev[id].chat_id, prev[id].type, prev[id].situation, prev[id].style>> = key

\* C2: a call in which no save fails saves exactly one row per distinct key
\* among the entries that carry source_id, situation and style and match a
\* row; entries sharing a key are saved once, an entry with a field missing
\* saves nothing and stops nothing, and no row is created.
C2_OneWritePerKey ==
    (ops > 0 /\ ~out.raised) =>
        /\ Len(out.saved) = Cardinality(WritableKeys)
        /\ {out.saved[i] : i \in 1..Len(out.saved)} = {RowOfKey(key) : key \in WritableKeys}
        /\ DOMAIN store = DOMAIN prev
        /\ \A id \in DOMAIN store :
              (\A i \in 1..Len(out.saved) : out.saved[i] # id) => store[id] = prev[id]

\* A batch of two entries that differ in an ignored field only, with an entry
\* that lacks style: one save.
C2_Witness ==
    /\ ops > 0 /\ ~out.raised
    /\ Len(batch) = 2 /\ batch[1] # batch[2]
    /\ Cardinality(WritableKeys) = 1
    /\ Len(out.saved) = 1

FirstIndex(key) ==
    CHOOSE i \in 1..Len(batch) :
        /\ ~MissingField(batch[i]) /\ ExprKey(batch[i]) = key
        /\ \A j \in 1..(i - 1) : MissingField(batch[j]) \/ ExprKey(batch[j]) # key

KeyOfRow(id) == <<prev[id].chat_id, prev[id].type, prev[id].situation, prev[id].style>>

\* C9: when the n-th save of a call fails, the n-1 rows saved before it keep
\* their new count and last_active_time, they are the rows of the keys that
\* come first in order of first occurrence, and every other row is as it was.
C9_NoBatchAtomicity ==
    (ops > 0 /\ out.raised) =>
        /\ Len(out.saved) = out.failAt - 1
        /\ Len(out.saved) < Cardinality(WritableKeys)
        /\ \A i \in 1..Len(out.saved) :
              /\ store[out.saved[i]].count =
                    Min(prev[out.saved[i]].count + increment, MaxCount)
              /\ store[out.saved[i]].last_active_time = now - 1
              /\ \A j \in 1..Len(out.saved) :
                    i < j => FirstIndex(KeyOfRow(out.saved[i])) < FirstIndex(KeyOfRow(out.saved[j]))
              /\ \A key \in WritableKeys :
                    FirstIndex(key) < FirstIndex(KeyOfRow(out.saved[i]))
                        => \E j \in 1..Len(out.saved) : out.saved[j] = RowOfKey(key)
        /\ \A id \in DOMAIN store :
              (\A i \in 1..Len(out.saved) : out.saved[i] # id) => store[id] = prev[id]

\* The second save of a batch failed: one row written, one not.
C9_Witness ==
    /\ ops > 0 /\ out.raised /\ out.failAt = 2
    /\ Len(out.saved) = 1
    /\ store[out.saved[1]] # prev[out.saved[1]]

(***************************************************************************)
(* select_suitable_expressions_llm called on one event loop                *)
(***************************************************************************)
Situations == <<"s1", "s2", "s3", "s4", "s5", "s6", "s7", "s8", "s9", "s10",
                "s11", "s12", "s13">>
Styles == <<"t1", "t2", "t3", "t4", "t5", "t6", "t7", "t8", "t9", "t10",
            "t11", "t12", "t13">>

\* The chat of the calls; it shares a group with md5(qq_2).
ChatId == "md5(qq_1)"

\* A table with pool style rows for the chat and its group (rows 1-9, 12, 13),
\* a row of another type (10) and a style row of an unrelated chat (11). Row 1
\* has count c1, every other row count c.
SelectTable(pool, c1, c) ==
    [id \in 1..(pool + 2) |->
        [Row(id,
             IF id = 11 THEN "md5(qq_3)"
             ELSE IF id # 10 /\ id % 2 = 0 THEN "md5(qq_2)" ELSE "md5(qq_1)",
             IF id = 10 THEN "grammar" ELSE "style",
             Situations[id], Styles[id],
             IF id = 1 THEN c1 ELSE c)
         EXCEPT !.create_date = IF id % 2 = 0 THEN <<0>> ELSE <<>>]]

\* What the LLM call may do: raise, answer nothing, answer what no repair
\* makes JSON, or answer a JSON value.
Entries == {J("int", 0), J("int", 1), J("int", 10), J("int", 11),
            J("bool", TRUE), J("float", 1), J("str", "x")}
Payloads ==
    {J("list", l) : l \in SeqsUpTo(Entries, MaxSel)}
        \cup {J("int", 3), J("null", None), J("str", "x")}
Responses ==
    {[kind |-> "raise"], [kind |-> "empty"], [kind |-> "unparsable"]}
        \cup {[kind |-> "json", value |-> J("dict", [selected_situations |-> p])] :
                 p \in Payloads}
        \cup {[kind |-> "json", value |-> J("dict", [situations |-> J("list", <<>>)])],
              [kind |-> "json", value |-> J("list", <<J("int", 1)>>)]}

InitCalls(n) ==
    /\ \E t \in { SelectTable(9, 4990, 1000), SelectTable(10, 4990, 1000),
                  SelectTable(11, 0, 0), SelectTable(11, 1000, 0) } : store = t
    /\ store0 = store
    /\ now = 1
    /\ max_num \in {1, 20}
    /\ perm = [c \in 1..n |-> None]
    /\ pc = [c \in 1..n |-> "idle"]
    /\ style_exprs = [c \in 1..n |-> <<>>]
    /\ response = [c \in 1..n |-> <<>>]
    /\ result = [c \in 1..n |-> <<>>]
    /\ llm_calls = [c \in 1..n |-> 0]
    /\ saved = [c \in 1..n |-> [ids |-> <<>>, raised |-> FALSE]]
    /\ NoBatch /\ NoSample /\ NoReply

\* Call c is made and runs to its first await, the prompt lookup, or ends
\* before it. Calls are numbered in the order they are made.
Start(c) ==
    /\ pc[c] = "idle"
    /\ c > 1 => pc[c - 1] # "idle"
    /\ \E lookup \in {"true", "false", "raise"}, readFails \in BOOLEAN :
       \E o \in get_random_expressions(store, ChatId, CandidateCount, readFails) :
       \E b \in {Begin(lookup, o)} :
          /\ perm' = [perm EXCEPT ![c] = lookup]
          /\ pc' = [pc EXCEPT ![c] = b.pc]
          /\ style_exprs' = [style_exprs EXCEPT ![c] = b.exprs]
          /\ result' = [result EXCEPT ![c] = IF b.pc = "done" THEN <<Nothing>> ELSE <<>>]
    /\ UNCHANGED <<store, store0, now, max_num, response, llm_calls, saved,
                   batchVars, sampleVars, replyVars>>

\* get_prompt_async returns and the prompt is rendered, or one of the two
\* raises (outside the try); then the LLM is called.
PromptEnds(c) ==
    /\ pc[c] = "prompt"
    /\ \E ok \in BOOLEAN :
          /\ pc' = [pc EXCEPT ![c] = IF ok THEN "llm" ELSE "raised"]
          /\ llm_calls' = [llm_calls EXCEPT ![c] = IF ok THEN @ + 1 ELSE @]
    /\ UNCHANGED <<store, store0, now, max_num, perm, style_exprs, response,
                   result, saved, batchVars, sampleVars, replyVars>>

\* The LLM call ends and the call runs to its return without another await.
Answer(c, answers, keep) ==
    /\ pc[c] = "llm"
    /\ \E resp \in answers, failAt \in 0..MaxSel :
       \E a \in {AfterAnswer(store, style_exprs[c], resp, now, failAt)} :
          /\ failAt > 0 => a.raised
          /\ store' = a.store
          /\ now' = IF a.saved # <<>> \/ a.raised THEN now + 1 ELSE now
          /\ result' = [result EXCEPT ![c] = <<a.result>>]
          /\ saved' = [saved EXCEPT ![c] = [ids |-> a.saved, raised |-> a.raised]]
          /\ response' = IF keep THEN [response EXCEPT ![c] = <<resp>>] ELSE response
    /\ pc' = [pc EXCEPT ![c] = "done"]
    /\ UNCHANGED <<store0, max_num, perm, style_exprs, llm_calls,
                   batchVars, sampleVars, replyVars>>

\* One call, with the LLM's answer kept for the claims about it.
InitSelect == InitCalls(1)
StartOne == Start(1)
PromptEndsOne == PromptEnds(1)
AnswerOne == Answer(1, Responses, TRUE)
NextSelect == StartOne \/ PromptEndsOne \/ AnswerOne
SpecSelect == InitSelect /\ [][NextSelect]_vars

\* Several calls interleaved at their awaits. The LLM raises, answers nothing
\* or selects among candidates 1 and 10.
ConcResponses ==
    {[kind |-> "raise"], [kind |-> "empty"]}
        \cup {[kind |-> "json",
               value |-> J("dict", [selected_situations |-> J("list", l)])] :
                 l \in SeqsUpTo({J("int", 1), J("int", 10)}, MaxSel)}
InitConc == InitCalls(NCalls)
StartAny == \E c \in 1..NCalls : Start(c)
PromptEndsAny == \E c \in 1..NCalls : PromptEnds(c)
AnswerAny == \E c \in 1..NCalls : Answer(c, ConcResponses, FALSE)
NextConc == StartAny \/ PromptEndsAny \/ AnswerAny
SpecConc == InitConc /\ [][NextConc]_vars

(***************************************************************************)
(* Claims about select_suitable_expressions_llm                            *)
(***************************************************************************)
\* The style rows of the chat and of the chat grouped with it.
PoolSize ==
    Cardinality({id \in DOMAIN store :
                    /\ store[id].type = "style"
                    /\ store[id].chat_id \in {"md5(qq_1)", "md5(qq_2)"}})

\* The entries of a list that are integers between 1 and n, in order.
IntegersInRange(items, n) ==
    SelectSeq(items, LAMBDA e : e.t = "int" /\ 1 <= e.v /\ e.v <= n)

\* C3: when the LLM answers a list under selected_situations (and no save of
\* the reinforcement fails), the call returns the candidates at the entries
\* that are integers in [1, N], in the order of the entries, every other entry
\* being dropped, and the id list holds the ids of the returned expressions
\* in the same order.
C3_IndexMapping ==
    \A c \in DOMAIN pc :
        ( /\ pc[c] = "done" /\ response[c] # <<>>
          /\ response[c][1].kind = "json"
          /\ response[c][1].value.t = "dict"
          /\ "selected_situations" \in DOMAIN response[c][1].value.v
          /\ response[c][1].value.v["selected_situations"].t = "list"
          /\ ~saved[c].raised )
        => LET picked == IntegersInRange(response[c][1].value.v["selected_situations"].v,
                                         Len(style_exprs[c]))
           IN /\ result[c][1][1] = [i \in 1..Len(picked) |-> style_exprs[c][picked[i].v]]
              /\ result[c][1][2] = [i \in 1..Len(picked) |-> style_exprs[c][picked[i].v].id]

\* C4: the LLM is invoked only by a call whose permission check returned true
\* and whose retrieval returned 10 candidates. A call for a chat that is not
\* permitted (the lookup returned false or raised) returns ([], []); a call
\* that finds fewer than 10 style rows for the chat and its group returns
\* ([], []) once the retrieval has completed; neither invokes the LLM nor
\* saves a row, whatever max_num is.
C4_LLMOnlyAfterGate ==
    \A c \in DOMAIN pc :
        /\ llm_calls[c] > 0 =>
              (perm[c] = "true" /\ Len(style_exprs[c]) = 10 /\ PoolSize >= 10)
        /\ pc[c] \in {"llm", "prompt"} => (perm[c] = "true" /\ Len(style_exprs[c]) = 10)
        /\ (pc[c] # "idle" /\ (perm[c] # "true" \/ PoolSize < 10)) =>
              /\ llm_calls[c] = 0
              /\ saved[c].ids = <<>>
              /\ pc[c] \in {"done", "raised"}
              /\ pc[c] = "done" => result[c] = << << <<>>, <<>> >> >>
              /\ perm[c] # "true" => pc[c] = "done"
        /\ PoolSize < 10 => store = store0

\* Nine style rows in the pool, max_num below nine: the permitted call
\* returned ([], []).
C4_Witness ==
    \E c \in DOMAIN pc :
        /\ pc[c] = "done" /\ perm[c] = "true" /\ PoolSize = 9 /\ max_num = 1
        /\ result[c] = <<Nothing>> /\ llm_calls[c] = 0

\* C6: no call ends with an exception leaving it.
C6_NeverPropagates == \A c \in DOMAIN pc : pc[c] # "raised"

SelectedBy(id) ==
    {c \in DOMAIN pc : result[c] # <<>> /\ InSeq(id, result[c][1][2])}

\* C10: once every call has ended, and no save failed, the count of every
\* row is min(5.0, its initial count + 0.006 for each call that selected it),
\* however the calls interleaved and however often one call selected the row.
C10_NoLostReinforcement ==
    ( /\ \A c \in DOMAIN pc : pc[c] \in {"done", "raised"}
      /\ \A c \in DOMAIN pc : ~saved[c].raised )
    => \A id \in DOMAIN store :
          store[id].count =
              Min(5000, store0[id].count + 6 * Cardinality(SelectedBy(id)))

\* Two calls retrieved row 12 (candidate 10) before either reinforced it (both
\* return it with the count it started with), one of them selected it twice,
\* and the row was reinforced twice.
C10_Witness ==
    /\ \A c \in DOMAIN pc : pc[c] \in {"done", "raised"}
    /\ \A c \in DOMAIN pc : ~saved[c].raised
    /\ \E c, d \in DOMAIN pc :
          /\ c # d
          /\ result[c] # <<>> /\ result[d] # <<>>
          /\ result[c][1][2] = <<12, 12>>
          /\ result[d][1][2] = <<12>>
          /\ result[c][1][1][1].count = store0[12].count
          /\ result[d][1][1][1].count = store0[12].count
    /\ store[12].count = store0[12].count + 12

(***************************************************************************)
(* weighted_sample applied to any small population                         *)
(***************************************************************************)
\* The population is a list of dicts; pos tells the dicts apart.
InitSample ==
    /\ \E n \in 0..MaxPop :
          /\ population = [i \in 1..n |-> [pos |-> i]]
          /\ weights \in [1..n -> 0..MaxWeight]
    /\ k \in 0..MaxK
    /\ sampled = <<>>
    /\ store = <<>> /\ store0 = <<>> /\ now = 1
    /\ NoBatch /\ NoSelect /\ NoReply

Sample ==
    /\ sampled = <<>>
    /\ \E o \in weighted_sample(population, weights, k) : sampled' = <<o>>
    /\ UNCHANGED <<population, weights, k, store, store0, now,
                   batchVars, selectVars, replyVars>>

NextSample == Sample
SpecSample == InitSample /\ [][NextSample]_vars

\* C5: for a non-empty population, parallel non-negative weights and k > 0,
\* weighted_sample returns min(k, len(population)) elements, each from a
\* different position of the population.
C5_SampleSize ==
    (sampled # <<>> /\ population # <<>> /\ k > 0) =>
        /\ ~sampled[1].raised
        /\ Len(sampled[1].selected) = Min(k, Len(population))
        /\ \A i, j \in 1..Len(sampled[1].selected) :
              i # j => sampled[1].selected[i].pos # sampled[1].selected[j].pos

(***************************************************************************)
(* ReplyGenerator.generate                                                 *)
(***************************************************************************)
\* "抱歉，我现在有点混乱，让我重新思考一下..."
Apology == "sorry, I am a bit confused right now, let me think it over again..."

\* What the LLM may answer.
Contents == {"", "a reply", Apology}

\* ChatObserver.get_message_history(limit): the most recent messages, at most limit.
get_message_history(held, limit) == Min(held, limit)

\* A plausible slip: a timeout of the wait ends the call.
AfterWaitAbort(updated) ==
    IF updated THEN [log |-> <<"updated", "history", "llm">>, pc |-> "llm"]
    ELSE [log |-> <<"timeout">>, pc |-> "done"]

\* if not await wait_for_update(): logger.warning(..); then the history is
\* read, the prompt is built and the LLM is called.
AfterWait(updated) ==
    [log |-> <<IF updated THEN "updated" ELSE "timeout", "history", "llm">>, pc |-> "llm"]

\* A plausible slip: the handler returns what it has, nothing.
AfterLLMNoFallback(o) == IF o.raised THEN "" ELSE o.content

\* try: content, _ = await generate_response_async(prompt); return content
\* except Exception: return the apology
AfterLLM(o) == IF o.raised THEN Apology ELSE o.content

InitReply ==
    /\ store = <<>> /\ store0 = <<>> /\ now = 1
    /\ NoBatch /\ NoSelect /\ NoSample /\ NoReply

\* generate is called: trigger_update(), then it awaits wait_for_update().
Generate ==
    /\ gpc \in {"idle", "done"}
    /\ gcalls < MaxGenerate
    /\ gcalls' = gcalls + 1
    /\ gpc' = "wait"
    /\ log' = <<"trigger">>
    /\ llm_out' = <<>> /\ reply' = <<>> /\ messages' = 0
    /\ UNCHANGED <<observed, store, store0, now, batchVars, selectVars, sampleVars>>

\* wait_for_update() returns, updated or timed out; generate runs on to its
\* next await, the LLM call.
WaitEnds ==
    /\ gpc = "wait"
    /\ \E updated \in BOOLEAN :
          /\ log' = log \o AfterWait(updated).log
          /\ gpc' = AfterWait(updated).pc
          /\ reply' = IF AfterWait(updated).pc = "done" THEN <<Apology>> ELSE reply
          /\ messages' = IF InSeq("history", AfterWait(updated).log)
                         THEN get_message_history(observed, HistoryLimit)
                         ELSE messages
    /\ UNCHANGED <<observed, llm_out, gcalls, store, store0, now,
                   batchVars, selectVars, sampleVars>>

\* The LLM call returns or raises; generate returns.
LLMEnds ==
    /\ gpc = "llm"
    /\ \E o \in [raised : {FALSE}, content : Contents] \cup {[raised |-> TRUE, content |-> ""]} :
          /\ llm_out' = <<o>>
          /\ reply' = <<AfterLLM(o)>>
    /\ log' = Append(log, "return")
    /\ gpc' = "done"
    /\ UNCHANGED <<observed, messages, gcalls, store, store0, now,
                   batchVars, selectVars, sampleVars>>

\* The chat observer takes in a message, whatever generate is doing.
Observe ==
    /\ observed < MaxObserved
    /\ observed' = observed + 1
    /\ UNCHANGED <<gpc, log, messages, llm_out, reply, gcalls, store, store0, now,
                   batchVars, selectVars, sampleVars>>

NextReply == Generate \/ WaitEnds \/ LLMEnds \/ Observe
SpecReply == InitReply /\ [][NextReply]_vars

\* C7: when the LLM call raised, generate returns the apology and does not
\* raise; when it succeeded, generate returns the content as it came.
C7_Fallback ==
    (gpc = "done" /\ llm_out # <<>>) =>
        /\ Len(reply) = 1
        /\ llm_out[1].raised =>
              reply[1] = "sorry, I am a bit confused right now, let me think it over again..."
        /\ ~llm_out[1].raised => reply[1] = llm_out[1].content

C7_Witness ==
    /\ gpc = "done" /\ llm_out # <<>> /\ llm_out[1].raised
    /\ reply = <<Apology>>

StepsInOrder(w) == <<"trigger", w, "history", "llm", "return">>

\* C8: the steps of a call come in the order trigger, end of the wait, read
\* of the history (at most 20 messages), one LLM call, return; a call whose
\* wait timed out goes through all of them and returns a string.
C8_StepOrder ==
    /\ \E w \in {"updated", "timeout"} :
          log = SubSeq(StepsInOrder(w), 1, Len(log))
    /\ gpc = "wait" => log = <<"trigger">>
    /\ gpc = "llm" => Len(log) = 4
    /\ gpc = "done" => (Len(log) = 5 /\ Len(reply) = 1 /\ reply[1] \in Contents)
    /\ messages <= 20

C8_Witness ==
    /\ gpc = "done"
    /\ log = StepsInOrder("timeout")
    /\ messages = 20
====
